---- MODULE Spec2Model ----
(***************************************************************************)
(* Add Hardware dialog of libvirtmanager: the graphics page, its XML       *)
(* encoder (DeviceGraphicsXml::from_state + quick_xml::se::to_string), the *)
(* external editor session (launch_graphics_xml_editor) and the merge of   *)
(* the edited XML into the dialog state (apply_graphics_from_xml).         *)
(*                                                                         *)
(* Strings are sequences of atoms: <<>> is the empty string, <<"spice">>   *)
(* the string "spice", <<" ", "a">> the string " a".  The atom " " stands  *)
(* for a whitespace character, every other atom for a run of               *)
(* non-whitespace characters.  Option<T> is a sequence of length <= 1.     *)
(***************************************************************************)
EXTENDS Integers, Sequences, FiniteSets, TLC

VARIABLES
    app,        \* AddHardwareApp: the dialog state
    rt_pc,      \* codec run: position in encode -> decode -> merge -> encode
    rt_orig,    \* codec run: the config the run started from
    rt_xml1,    \* codec run: text of the first encode
    rt_dec,     \* codec run: result of decoding
    rt_xml2,    \* codec run: text of the second encode
    m_frag,     \* merge run: the decoded fragment that was merged (an Option)
    env,        \* the process environment: VISUAL and EDITOR (Options)
    window,     \* the dialog's window: "open" or "closed"
    sessions,   \* one record per persisted temp file, in creation order
    ui_waiting, \* the session whose editor the event loop is blocked on (an Option)
    tmp_dropped,\* number of temp files removed again when their NamedTempFile was dropped
    ui_left,    \* number of inputs the user may still give
    about       \* about.rs: the OnceLock of AboutDialogManager and the calls made

rt_vars == <<rt_pc, rt_orig, rt_xml1, rt_dec, rt_xml2, m_frag>>
dlg_vars == <<env, window, sessions, ui_waiting, tmp_dropped, ui_left>>
about_vars == <<about>>
vars == <<app, rt_pc, rt_orig, rt_xml1, rt_dec, rt_xml2, m_frag,
          env, window, sessions, ui_waiting, tmp_dropped, ui_left, about>>

----------------------------------------------------------------------------
(* Bounds *)

\* explicit ports range over MinPort..MaxPort
MaxPort == 1
\* passwords typed by the user have at most MaxPwLen atoms
MaxPwLen == 2
\* the user gives the dialog at most MaxUiMsgs inputs before closing it
MaxUiMsgs == 3
\* the same, in the runs checked for liveness
FairUiMsgs == 2
\* at most MaxAboutCalls calls are made on AboutDialogManager
MaxAboutCalls == 4

----------------------------------------------------------------------------
(* Strings and options *)

None == <<>>
Some(v) == <<v>>
IsSome(o) == o # <<>>
Unwrap(o) == o[1]

Str(a) == <<a>>
EmptyStr == <<>>
WS == " "

RECURSIVE trim_start(_)
trim_start(s) == IF s # <<>> /\ Head(s) = WS THEN trim_start(Tail(s)) ELSE s

RECURSIVE trim_end(_)
trim_end(s) ==
    IF s # <<>> /\ s[Len(s)] = WS THEN trim_end(SubSeq(s, 1, Len(s) - 1)) ELSE s

\* str::trim, and the trimming quick-xml's deserializer applies to text content
trim(s) == trim_end(trim_start(s))

StrsUpTo(alphabet, n) == UNION {[1..k -> alphabet] : k \in 0..n}

----------------------------------------------------------------------------
(* XML documents.  A document is the tree the XML text denotes: an element *)
(* has a name, attributes, child elements and text content.  wf = FALSE is *)
(* text that is not well-formed XML (or is empty); decl is the             *)
(* <?xml ...?> header; nl is a trailing newline after the root element.    *)

Attr(n, v) == [name |-> n, value |-> v]
Elem(n, attrs, kids, text) == [name |-> n, attrs |-> attrs, kids |-> kids, text |-> text]
Leaf(n, text) == Elem(n, <<>>, <<>>, text)
Node(n, kids) == Elem(n, <<>>, kids, <<>>)
XmlText(decl, root, nl) == [wf |-> TRUE, decl |-> decl, root |-> root, nl |-> nl]
Garbage == [wf |-> FALSE, decl |-> FALSE, root |-> Leaf("", <<>>), nl |-> FALSE]

Ok(v) == [ok |-> TRUE, val |-> <<v>>, err |-> ""]
Err(e) == [ok |-> FALSE, val |-> <<>>, err |-> e]

----------------------------------------------------------------------------
(* Program constants of AddHardwareApp::new and view_graphics_page *)

gfx_types == <<Str("spice"), Str("vnc")>>
listen_kinds == <<Str("address"), Str("none")>>
gfx_address_options == <<Str("Default"), Str("127.0.0.1"), Str("0.0.0.0")>>
gfx_rendernode_options == <<Str("Auto")>>

Range(seq) == {seq[i] : i \in 1..Len(seq)}

----------------------------------------------------------------------------
(* Serde XML structures *)

GlAttr(enable) == [enable |-> enable]
ListenAttr(ltype, address) == [ltype |-> ltype, address |-> address]
DeviceGraphicsXml(gtype, passwd, gl, rendernode, listen, port) ==
    [gtype |-> gtype, passwd |-> passwd, gl |-> gl, rendernode |-> rendernode,
     listen |-> listen, port |-> port]

\* mutant: the port is written for listen "none" too
from_state_port_always(s) ==
    LET gl == IF s.gfx_type = Str("spice")
              THEN Some(GlAttr(IF s.gfx_opengl THEN Str("yes") ELSE Str("no")))
              ELSE None
    IN  DeviceGraphicsXml(
            s.gfx_type,
            IF s.gfx_password_enabled THEN Some(s.gfx_password) ELSE None,
            gl,
            IF s.gfx_opengl /\ s.gfx_rendernode_selected # Str("Auto")
            THEN Some(s.gfx_rendernode_selected) ELSE None,
            IF s.gfx_listen_kind = Str("none")
            THEN Some(ListenAttr(Str("none"), None))
            ELSE Some(ListenAttr(Str("address"),
                                 IF s.gfx_address_selected = Str("Default")
                                 THEN None ELSE Some(s.gfx_address_selected))),
            IF s.gfx_port_auto THEN Some(-1) ELSE Some(s.gfx_port_value))

\* mutant: gl is written for every type
from_state_gl_always(s) ==
    DeviceGraphicsXml(
        s.gfx_type,
        IF s.gfx_password_enabled THEN Some(s.gfx_password) ELSE None,
        Some(GlAttr(IF s.gfx_opengl THEN Str("yes") ELSE Str("no"))),
        IF s.gfx_opengl /\ s.gfx_rendernode_selected # Str("Auto")
        THEN Some(s.gfx_rendernode_selected) ELSE None,
        IF s.gfx_listen_kind = Str("none")
        THEN Some(ListenAttr(Str("none"), None))
        ELSE Some(ListenAttr(Str("address"),
                             IF s.gfx_address_selected = Str("Default")
                             THEN None ELSE Some(s.gfx_address_selected))),
        IF s.gfx_listen_kind = Str("none") THEN None
        ELSE IF s.gfx_port_auto THEN Some(-1) ELSE Some(s.gfx_port_value))

from_state(s) ==
    LET gl == IF s.gfx_type = Str("spice")
              THEN Some(GlAttr(IF s.gfx_opengl THEN Str("yes") ELSE Str("no")))
              ELSE None
        listen == IF s.gfx_listen_kind = Str("none")
                  THEN Some(ListenAttr(Str("none"), None))
                  ELSE Some(ListenAttr(Str("address"),
                                       IF s.gfx_address_selected = Str("Default")
                                       THEN None
                                       ELSE Some(s.gfx_address_selected)))
        port == IF s.gfx_listen_kind = Str("none") THEN None
                ELSE IF s.gfx_port_auto THEN Some(-1)
                ELSE Some(s.gfx_port_value)
        rendernode == IF s.gfx_opengl
                      THEN IF s.gfx_rendernode_selected = Str("Auto")
                           THEN None
                           ELSE Some(s.gfx_rendernode_selected)
                      ELSE None
    IN  DeviceGraphicsXml(
            s.gfx_type,
            IF s.gfx_password_enabled THEN Some(s.gfx_password) ELSE None,
            gl, rendernode, listen, port)

\* i32 -> text, as quick-xml writes it
i32_to_text(n) == Str(ToString(n))

\* quick_xml::se::to_string on DeviceGraphicsXml: the serde field names carry
\* no "@" prefix, so every field is written as a child element, in field
\* order; a None field is skipped.
ser_gl(g) == Node("gl", <<Leaf("enable", g.enable)>>)
ser_listen(l) ==
    Node("listen", <<Leaf("type", l.ltype)>>
                   \o (IF IsSome(l.address) THEN <<Leaf("address", Unwrap(l.address))>> ELSE <<>>))
to_xml_string(x) ==
    Node("graphics",
         <<Leaf("type", x.gtype)>>
         \o (IF IsSome(x.passwd) THEN <<Leaf("passwd", Unwrap(x.passwd))>> ELSE <<>>)
         \o (IF IsSome(x.gl) THEN <<ser_gl(Unwrap(x.gl))>> ELSE <<>>)
         \o (IF IsSome(x.rendernode) THEN <<Leaf("rendernode", Unwrap(x.rendernode))>> ELSE <<>>)
         \o (IF IsSome(x.listen) THEN <<ser_listen(Unwrap(x.listen))>> ELSE <<>>)
         \o (IF IsSome(x.port) THEN <<Leaf("port", i32_to_text(Unwrap(x.port)))>> ELSE <<>>))

\* the XML header is prepended; the serializer never emits one itself
graphics_xml_string(s) == XmlText(TRUE, to_xml_string(from_state(s)), FALSE)

----------------------------------------------------------------------------
(* quick_xml::de::from_str::<DeviceGraphicsXml> *)

\* values an i32 text can denote in the model
I32 == (0 - MaxPort - 2)..(MaxPort + 1)

Children(e, n) == SelectSeq(e.kids, LAMBDA k : k.name = n)
HasChild(e, n) == Children(e, n) # <<>>
Child(e, n) == Children(e, n)[1]
AtMostOne(e, n) == Len(Children(e, n)) <= 1

\* a String field: the element's text, surrounding whitespace trimmed
StringOk(k) == k.kids = <<>>
de_string(k) == trim(k.text)
I32Ok(k) == k.kids = <<>> /\ \E n \in I32 : i32_to_text(n) = trim(k.text)
de_i32(k) == CHOOSE n \in I32 : i32_to_text(n) = trim(k.text)

\* GlAttr: `enable` is required
GlOk(k) == Len(Children(k, "enable")) = 1 /\ StringOk(Child(k, "enable"))
de_gl(k) == GlAttr(de_string(Child(k, "enable")))

\* ListenAttr: `type` is required, `address` optional
ListenOk(k) ==
    /\ Len(Children(k, "type")) = 1 /\ StringOk(Child(k, "type"))
    /\ AtMostOne(k, "address")
    /\ HasChild(k, "address") => StringOk(Child(k, "address"))
de_listen(k) ==
    ListenAttr(de_string(Child(k, "type")),
               IF HasChild(k, "address") THEN Some(de_string(Child(k, "address"))) ELSE None)

\* The root element's name is not checked, attributes (keys "@name") and
\* unknown child elements are ignored, a repeated field is an error.
ParseOk(d) ==
    /\ d.wf
    /\ \A n \in {"type", "passwd", "gl", "rendernode", "listen", "port"} : AtMostOne(d.root, n)
    /\ HasChild(d.root, "type") => StringOk(Child(d.root, "type"))
    /\ HasChild(d.root, "passwd") => StringOk(Child(d.root, "passwd"))
    /\ HasChild(d.root, "gl") => GlOk(Child(d.root, "gl"))
    /\ HasChild(d.root, "rendernode") => StringOk(Child(d.root, "rendernode"))
    /\ HasChild(d.root, "listen") => ListenOk(Child(d.root, "listen"))
    /\ HasChild(d.root, "port") => I32Ok(Child(d.root, "port"))

from_xml_str(d) ==
    IF ~ParseOk(d) THEN Err("XML parse error")
    ELSE LET r == d.root
             opt_string(n) == IF HasChild(r, n) THEN Some(de_string(Child(r, n))) ELSE None
         IN  Ok(DeviceGraphicsXml(
                 IF HasChild(r, "type") THEN de_string(Child(r, "type")) ELSE EmptyStr,
                 opt_string("passwd"),
                 IF HasChild(r, "gl") THEN Some(de_gl(Child(r, "gl"))) ELSE None,
                 opt_string("rendernode"),
                 IF HasChild(r, "listen") THEN Some(de_listen(Child(r, "listen"))) ELSE None,
                 IF HasChild(r, "port") THEN Some(de_i32(Child(r, "port"))) ELSE None))

\* str::trim on the file contents: drops the trailing newline
trim_text(d) == [d EXCEPT !.nl = FALSE]

----------------------------------------------------------------------------
(* AddHardwareApp::apply_graphics_from_xml *)

apply_type(s, x) ==
    IF x.gtype # EmptyStr THEN [s EXCEPT !.gfx_type = x.gtype] ELSE s

apply_listen(s, x) ==
    IF IsSome(x.listen)
    THEN LET lst == Unwrap(x.listen)
         IN  IF lst.ltype = Str("none")
             THEN [s EXCEPT !.gfx_listen_kind = Str("none"),
                            !.gfx_address_selected = Str("Default"),
                            !.gfx_port_auto = TRUE]
             ELSE [s EXCEPT !.gfx_listen_kind = Str("address"),
                            !.gfx_address_selected =
                                IF IsSome(lst.address) THEN Unwrap(lst.address)
                                ELSE Str("Default")]
    ELSE s

\* mutant: port = -1 does not reset port_value
apply_port_no_reset(s, x) ==
    IF IsSome(x.port)
    THEN LET p == Unwrap(x.port)
         IN  IF p = -1
             THEN [s EXCEPT !.gfx_port_auto = TRUE]
             ELSE [s EXCEPT !.gfx_port_auto = FALSE, !.gfx_port_value = p]
    ELSE s

apply_port(s, x) ==
    IF IsSome(x.port)
    THEN LET p == Unwrap(x.port)
         IN  IF p = -1
             THEN [s EXCEPT !.gfx_port_auto = TRUE, !.gfx_port_value = 0]
             ELSE [s EXCEPT !.gfx_port_auto = FALSE, !.gfx_port_value = p]
    ELSE s

\* mutant: a fragment without passwd leaves the password as it is
apply_passwd_keep(s, x) ==
    IF IsSome(x.passwd)
    THEN [s EXCEPT !.gfx_password_enabled = TRUE, !.gfx_password = Unwrap(x.passwd)]
    ELSE s

apply_passwd(s, x) ==
    IF IsSome(x.passwd)
    THEN [s EXCEPT !.gfx_password_enabled = TRUE, !.gfx_password = Unwrap(x.passwd)]
    ELSE [s EXCEPT !.gfx_password_enabled = FALSE, !.gfx_password = EmptyStr]

apply_gl(s, x) ==
    [s EXCEPT !.gfx_opengl = IF IsSome(x.gl) THEN Unwrap(x.gl).enable = Str("yes") ELSE FALSE,
              !.gfx_rendernode_selected =
                  IF IsSome(x.rendernode) THEN Unwrap(x.rendernode) ELSE Str("Auto")]

apply_graphics_from_xml(s, x) ==
    apply_gl(apply_passwd(apply_port(apply_listen(apply_type(s, x), x), x), x), x)

----------------------------------------------------------------------------
(* AddHardwareApp::new *)

Page == {"Storage", "Controller", "Network", "Input", "Graphics", "Sound", "Hostdev",
         "Char", "Video", "Watchdog", "Filesystem", "Smartcard", "UsbRedir", "Tpm",
         "Rng", "Panic", "Vsock"}

new ==
    [current |-> "Storage",
     storage_device_type |-> Str("disk"),
     storage_bus |-> Str("virtio"),
     storage_path |-> EmptyStr,
     net_model_selected |-> Str("Default"),
     net_mac_enabled |-> TRUE,
     net_mac |-> EmptyStr,
     gfx_type |-> Str("spice"),
     gfx_listen_kind |-> Str("address"),
     gfx_address_selected |-> Str("Default"),
     gfx_port_auto |-> TRUE,
     gfx_port_value |-> 0,
     gfx_password_enabled |-> FALSE,
     gfx_password |-> EmptyStr,
     gfx_opengl |-> FALSE,
     gfx_rendernode_selected |-> Str("Auto"),
     gfx_status |-> None,
     gfx_temp_xml_path |-> None]

----------------------------------------------------------------------------
(* about.rs: AboutDialogManager *)

\* the static INSTANCE before its first use: an empty OnceLock; inits
\* counts the managers ever constructed, log the calls made and what each
\* returned
AboutStart == [once |-> None, inits |-> 0, log |-> <<>>]

AboutDialogManager(id) == [id |-> id, instance |-> None]

\* mutant: every call constructs a manager of its own
get_instance_fresh(a) ==
    [a EXCEPT !.once = Some(AboutDialogManager(a.inits + 1)), !.inits = @ + 1]

\* INSTANCE.get_or_init(|| AboutDialogManager { instance: None })
get_instance(a) ==
    IF a.once = None
    THEN [a EXCEPT !.once = Some(AboutDialogManager(a.inits + 1)), !.inits = @ + 1]
    ELSE a

\* VmmAbout::show_instance builds the dialog inside iced::application and
\* returns when it has run; the manager's instance slot is not written
show(m, app_version) == m

\* *instance = None; 1
close(m) == [m EXCEPT !.instance = None]
close_ret == 1

\* *instance = None
cleanup(m) == [m EXCEPT !.instance = None]

AboutCall == Len(about.log) < MaxAboutCalls /\ UNCHANGED <<app, rt_vars, dlg_vars>>

AboutGetInstance ==
    /\ AboutCall
    /\ LET a == get_instance(about)
       IN  about' = [a EXCEPT !.log = Append(@, <<"get_instance", Unwrap(a.once).id>>)]

\* show, with the dialog run to its end or failed to start, and with or
\* without an error callback; the return is whether the callback ran
AboutShow ==
    /\ AboutCall
    /\ IsSome(about.once)
    /\ \E ok \in BOOLEAN, callback \in BOOLEAN :
          about' = [about EXCEPT !.once = Some(show(Unwrap(@), Str("1.0"))),
                                 !.log = Append(@, <<"show", ~ok /\ callback>>)]

AboutClose ==
    /\ AboutCall
    /\ IsSome(about.once)
    /\ about' = [about EXCEPT !.once = Some(close(Unwrap(@))),
                              !.log = Append(@, <<"close", close_ret>>)]

AboutCleanup ==
    /\ AboutCall
    /\ IsSome(about.once)
    /\ about' = [about EXCEPT !.once = Some(cleanup(Unwrap(@))),
                              !.log = Append(@, <<"cleanup", 0>>)]

----------------------------------------------------------------------------
(* Input domains *)

\* ports the user can type or an edited document can carry
PortValues == {-2, -1} \cup (0..MaxPort)
\* passwords the user can type
Passwords == StrsUpTo({"a", WS}, MaxPwLen)
\* render nodes: the pick list's "Auto", or a node named by an edited document
RenderNodes == Range(gfx_rendernode_options) \cup {Str("/dev/dri/renderD128")}

\* the graphics configs the codec runs start from
GraphicsConfigs ==
    {[new EXCEPT !.gfx_type = t, !.gfx_listen_kind = k, !.gfx_address_selected = a,
                 !.gfx_port_auto = pa, !.gfx_port_value = pv,
                 !.gfx_password_enabled = pe, !.gfx_password = pw,
                 !.gfx_opengl = gl, !.gfx_rendernode_selected = rn] :
        t \in Range(gfx_types), k \in Range(listen_kinds),
        a \in Range(gfx_address_options), pa \in BOOLEAN, pv \in PortValues,
        pe \in BOOLEAN, pw \in Passwords, gl \in BOOLEAN, rn \in RenderNodes}

\* the dialog part of the state in the codec and merge runs
DialogIdle ==
    /\ env = [VISUAL |-> None, EDITOR |-> None]
    /\ window = "open"
    /\ sessions = <<>>
    /\ ui_waiting = None
    /\ tmp_dropped = 0
    /\ ui_left = 0
    /\ about = AboutStart

----------------------------------------------------------------------------
(* Codec run: encode -> decode -> merge into the same config -> encode *)

RtEncode ==
    /\ rt_pc = "start"
    /\ rt_xml1' = graphics_xml_string(app)
    /\ rt_pc' = "encoded"
    /\ UNCHANGED <<app, rt_orig, rt_dec, rt_xml2, m_frag>>
    /\ UNCHANGED <<dlg_vars, about_vars>>

RtDecode ==
    /\ rt_pc = "encoded"
    /\ rt_dec' = from_xml_str(trim_text(rt_xml1))
    /\ rt_pc' = "decoded"
    /\ UNCHANGED <<app, rt_orig, rt_xml1, rt_xml2, m_frag>>
    /\ UNCHANGED <<dlg_vars, about_vars>>

RtMerge ==
    /\ rt_pc = "decoded"
    /\ rt_dec.ok
    /\ app' = apply_graphics_from_xml(app, Unwrap(rt_dec.val))
    /\ rt_pc' = "merged"
    /\ UNCHANGED <<rt_orig, rt_xml1, rt_dec, rt_xml2, m_frag>>
    /\ UNCHANGED <<dlg_vars, about_vars>>

RtEncode2 ==
    /\ rt_pc = "merged"
    /\ rt_xml2' = graphics_xml_string(app)
    /\ rt_pc' = "done"
    /\ UNCHANGED <<app, rt_orig, rt_xml1, rt_dec, m_frag>>
    /\ UNCHANGED <<dlg_vars, about_vars>>

CodecInit ==
    /\ app \in GraphicsConfigs
    /\ rt_orig = app
    /\ rt_pc = "start"
    /\ rt_xml1 = Garbage
    /\ rt_dec = Err("")
    /\ rt_xml2 = Garbage
    /\ m_frag = None
    /\ DialogIdle

CodecNext == RtEncode \/ RtDecode \/ RtMerge \/ RtEncode2

CodecSpec == CodecInit /\ [][CodecNext]_vars

----------------------------------------------------------------------------
(* Merge run: one decoded fragment merged into one config *)

\* the decoded fragments of the merge runs
FragmentHeads ==
    {<<EmptyStr, None, None>>,
     <<Str("vnc"), Some(GlAttr(Str("yes"))), Some(Str("/dev/dri/renderD128"))>>,
     <<Str("qxl"), Some(GlAttr(Str("no"))), None>>}
FragmentListens ==
    {None,
     Some(ListenAttr(Str("none"), None)),
     Some(ListenAttr(Str("address"), None)),
     Some(ListenAttr(Str("address"), Some(Str("0.0.0.0")))),
     Some(ListenAttr(Str("socket"), None))}
FragmentPorts == {None} \cup {Some(n) : n \in PortValues}
FragmentPasswds == {None, Some(EmptyStr), Some(Str("a"))}
DecodedFragments ==
    {DeviceGraphicsXml(h[1], pw, h[2], h[3], l, p) :
        h \in FragmentHeads, pw \in FragmentPasswds, l \in FragmentListens,
        p \in FragmentPorts}

MergeFragment ==
    /\ rt_pc = "start"
    /\ \E x \in DecodedFragments :
          /\ app' = apply_graphics_from_xml(app, x)
          /\ m_frag' = Some(x)
    /\ rt_pc' = "applied"
    /\ UNCHANGED <<rt_orig, rt_xml1, rt_dec, rt_xml2>>
    /\ UNCHANGED <<dlg_vars, about_vars>>

MergeNext == RtEncode \/ MergeFragment

MergeSpec == CodecInit /\ [][MergeNext]_vars

Applied == rt_pc = "applied"
Frag == Unwrap(m_frag)
FragListenNone == IsSome(Frag.listen) /\ Unwrap(Frag.listen).ltype = Str("none")

----------------------------------------------------------------------------
(* The dialog: AddHardwareApp::update driven by the event loop *)

\* the values of enum StorageMsg, NetworkMsg and GraphicsMsg (EditXml apart)
StorageMsg ==
    {<<"DeviceTypeChanged", Str("cdrom")>>, <<"BusChanged", Str("sata")>>,
     <<"PathChanged", Str("/img")>>}
NetworkMsg ==
    {<<"ModelChanged", Str("virtio")>>, <<"MacChanged", Str("52:54")>>}
    \cup {<<"MacToggle", v>> : v \in BOOLEAN}
UiPasswords == {Str("a"), <<WS, "a">>}
UiPorts == {-2, MaxPort}
GraphicsMsg ==
    {<<"TypeChanged", t>> : t \in Range(gfx_types)}
    \cup {<<"ListenKindChanged", k>> : k \in Range(listen_kinds)}
    \cup {<<"AddressChanged", a>> : a \in Range(gfx_address_options)}
    \cup {<<"PortAutoToggle", v>> : v \in BOOLEAN}
    \cup {<<"PortChanged", v>> : v \in UiPorts}
    \cup {<<"PasswordToggle", v>> : v \in BOOLEAN}
    \cup {<<"PasswordChanged", pw>> : pw \in UiPasswords}
    \cup {<<"OpenGlToggle", v>> : v \in BOOLEAN}
    \cup {<<"RenderNodeChanged", v>> : v \in Range(gfx_rendernode_options)}

\* the messages the widgets on screen can send: the sidebar always, and the
\* page view_page shows for `current`
view_sidebar == {"Storage", "Network", "Graphics", "Sound"}

view_storage_page == StorageMsg

view_network_page ==
    {m \in NetworkMsg : m[1] = "MacToggle" => m[2] = ~app.net_mac_enabled}

view_graphics_page ==
    {m \in GraphicsMsg :
        /\ m[1] \in {"AddressChanged", "PortAutoToggle", "PortChanged"}
           => app.gfx_listen_kind = Str("address")
        /\ m[1] = "PortAutoToggle" => m[2] = ~app.gfx_port_auto
        /\ m[1] = "PasswordToggle" => m[2] = ~app.gfx_password_enabled
        /\ m[1] = "OpenGlToggle" => (app.gfx_type = Str("spice") /\ m[2] = ~app.gfx_opengl)
        /\ m[1] = "RenderNodeChanged" => (app.gfx_type = Str("spice") /\ app.gfx_opengl)}

\* documents an editor may leave in the temp file instead of the original
DocNoneWithPort ==
    XmlText(TRUE,
            Node("graphics", <<Leaf("type", Str("vnc")),
                               Leaf("passwd", <<"a", WS>>),
                               Node("listen", <<Leaf("type", Str("none"))>>),
                               Leaf("port", Str("1"))>>),
            TRUE)
DocQxl ==
    XmlText(FALSE,
            Node("graphics", <<Leaf("type", Str("qxl")),
                               Node("gl", <<Leaf("enable", Str("yes"))>>),
                               Leaf("rendernode", Str("/dev/dri/renderD128")),
                               Node("listen", <<Leaf("type", Str("address")),
                                                Leaf("address", Str("0.0.0.0"))>>),
                               Leaf("port", Str("-2"))>>),
            FALSE)
EditedDocs == {Garbage, DocNoneWithPort, DocQxl}

\* std::process::ExitStatus codes an editor may end with
ExitCodes == {0, 1}

Session(file, child, task) ==
    [file |-> file, child |-> child, status |-> None, task |-> task, msg |-> None,
     delivered |-> 0]

\* mutant: the error is swallowed, no status is shown
set_status_silent(s, text) == [s EXCEPT !.gfx_status = None]

set_status(s, text) == [s EXCEPT !.gfx_status = Some(text)]

\* mutant: with neither variable set, vi is run
editor_or_vi(e) ==
    IF IsSome(e.VISUAL) THEN e.VISUAL
    ELSE IF IsSome(e.EDITOR) THEN e.EDITOR ELSE Some(Str("vi"))

\* env::var("VISUAL").or_else(|_| env::var("EDITOR")).ok()
editor(e) == IF IsSome(e.VISUAL) THEN e.VISUAL ELSE e.EDITOR

\* the event loop hands a message to update
Accepting == window # "closed" /\ ui_waiting = None

update_SelectPage(s, p) == [s EXCEPT !.current = p]

update_StorageChanged(s, smsg) ==
    CASE smsg[1] = "DeviceTypeChanged" -> [s EXCEPT !.storage_device_type = smsg[2]]
      [] smsg[1] = "BusChanged" -> [s EXCEPT !.storage_bus = smsg[2]]
      [] smsg[1] = "PathChanged" -> [s EXCEPT !.storage_path = smsg[2]]

update_NetworkChanged(s, nmsg) ==
    CASE nmsg[1] = "ModelChanged" -> [s EXCEPT !.net_model_selected = nmsg[2]]
      [] nmsg[1] = "MacToggle" -> [s EXCEPT !.net_mac_enabled = nmsg[2]]
      [] nmsg[1] = "MacChanged" -> [s EXCEPT !.net_mac = nmsg[2]]

update_GraphicsChanged(s, gmsg) ==
    CASE gmsg[1] = "TypeChanged" -> [s EXCEPT !.gfx_type = gmsg[2]]
      [] gmsg[1] = "ListenKindChanged" -> [s EXCEPT !.gfx_listen_kind = gmsg[2]]
      [] gmsg[1] = "AddressChanged" -> [s EXCEPT !.gfx_address_selected = gmsg[2]]
      [] gmsg[1] = "PortAutoToggle" -> [s EXCEPT !.gfx_port_auto = gmsg[2]]
      [] gmsg[1] = "PortChanged" -> [s EXCEPT !.gfx_port_value = gmsg[2]]
      [] gmsg[1] = "PasswordToggle" ->
            [s EXCEPT !.gfx_password_enabled = gmsg[2],
                      !.gfx_password = IF ~gmsg[2] THEN EmptyStr ELSE @]
      [] gmsg[1] = "PasswordChanged" -> [s EXCEPT !.gfx_password = gmsg[2]]
      [] gmsg[1] = "OpenGlToggle" -> [s EXCEPT !.gfx_opengl = gmsg[2]]
      [] gmsg[1] = "RenderNodeChanged" -> [s EXCEPT !.gfx_rendernode_selected = gmsg[2]]

\* mutant: an error result is applied as an empty fragment
update_GraphicsEdited_default_on_err(s, result) ==
    IF result.ok
    THEN set_status(apply_graphics_from_xml(s, Unwrap(result.val)), "Applied changes from XML.")
    ELSE set_status(apply_graphics_from_xml(
                        s, DeviceGraphicsXml(EmptyStr, None, None, None, None, None)),
                    "Failed to apply XML: " \o result.err)

update_GraphicsEdited(s, result) ==
    IF result.ok
    THEN set_status(apply_graphics_from_xml(s, Unwrap(result.val)), "Applied changes from XML.")
    ELSE set_status(s, "Failed to apply XML: " \o result.err)

HandleSelectPage(p) ==
    /\ Accepting
    /\ app' = update_SelectPage(app, p)
    /\ UNCHANGED <<env, window, sessions, ui_waiting, tmp_dropped>>

HandleStorageChanged(smsg) ==
    /\ Accepting
    /\ app' = update_StorageChanged(app, smsg)
    /\ UNCHANGED <<env, window, sessions, ui_waiting, tmp_dropped>>

HandleNetworkChanged(nmsg) ==
    /\ Accepting
    /\ app' = update_NetworkChanged(app, nmsg)
    /\ UNCHANGED <<env, window, sessions, ui_waiting, tmp_dropped>>

HandleGraphicsChanged(gmsg) ==
    /\ Accepting
    /\ app' = update_GraphicsChanged(app, gmsg)
    /\ UNCHANGED <<env, window, sessions, ui_waiting, tmp_dropped>>

UserInput == ui_left > 0 /\ ui_left' = ui_left - 1 /\ UNCHANGED <<rt_vars, about_vars>>

SelectPage == UserInput /\ \E p \in view_sidebar : HandleSelectPage(p)

StorageChanged ==
    /\ UserInput
    /\ app.current = "Storage"
    /\ \E smsg \in view_storage_page : HandleStorageChanged(smsg)

NetworkChanged ==
    /\ UserInput
    /\ app.current = "Network"
    /\ \E nmsg \in view_network_page : HandleNetworkChanged(nmsg)

GraphicsChanged ==
    /\ UserInput
    /\ app.current = "Graphics"
    /\ \E gmsg \in view_graphics_page : HandleGraphicsChanged(gmsg)

\* Message::Finish and Message::Cancel: update returns the task
\* window::get_latest().and_then(window::close), which the runtime runs at
\* once; with its only window closed the application's event loop ends.
Finish ==
    /\ Accepting
    /\ window' = "closed"
    /\ UNCHANGED <<app, env, sessions, ui_waiting, tmp_dropped, ui_left>>
    /\ UNCHANGED <<rt_vars, about_vars>>

Cancel ==
    /\ Accepting
    /\ window' = "closed"
    /\ UNCHANGED <<app, env, sessions, ui_waiting, tmp_dropped, ui_left>>
    /\ UNCHANGED <<rt_vars, about_vars>>

\* mutant: update calls child.wait() itself
launch_waits_for_child(p) == Some(p)

\* What update waits for before it returns from EditXml: nothing.  The wait
\* for the child is inside the future given to Task::perform.
launch_waits_for(p) == None

\* AddHardwareApp::launch_graphics_xml_editor.  tf is the outcome of the
\* temp-file steps, spawn_ok that of Command::spawn.
launch_graphics_xml_editor(tf, spawn_ok) ==
    LET xml == graphics_xml_string(app)
        p == Len(sessions) + 1
        written == Some([xml EXCEPT !.nl = TRUE])
        kept == [app EXCEPT !.gfx_temp_xml_path = Some(p)]
    IN  CASE tf = "create_failed" ->
               /\ app' = set_status(app, "Failed to create temp file")
               /\ UNCHANGED <<sessions, ui_waiting, tmp_dropped>>
          [] tf = "write_failed" ->
               \* `return` drops tf: the NamedTempFile removes its file
               /\ app' = set_status(app, "Failed writing temp XML")
               /\ tmp_dropped' = tmp_dropped + 1
               /\ UNCHANGED <<sessions, ui_waiting>>
          [] tf = "keep_failed" ->
               \* the PersistError holds the NamedTempFile and is dropped
               /\ app' = set_status(app, "Failed to persist temp XML")
               /\ tmp_dropped' = tmp_dropped + 1
               /\ UNCHANGED <<sessions, ui_waiting>>
          [] tf = "ok" /\ editor(env) = None ->
               /\ app' = set_status(kept, "No default editor set (VISUAL/EDITOR). Please set one to edit XML.")
               /\ sessions' = Append(sessions, Session(written, "none", "none"))
               /\ UNCHANGED <<ui_waiting, tmp_dropped>>
          [] tf = "ok" /\ editor(env) # None /\ ~spawn_ok ->
               /\ app' = set_status(kept, "Failed to launch editor")
               /\ sessions' = Append(sessions, Session(written, "none", "none"))
               /\ UNCHANGED <<ui_waiting, tmp_dropped>>
          [] tf = "ok" /\ editor(env) # None /\ spawn_ok ->
               /\ app' = kept
               /\ sessions' = Append(sessions, Session(written, "running", "waiting"))
               /\ ui_waiting' = launch_waits_for(p)
               /\ UNCHANGED tmp_dropped

TempFileOutcomes == {"ok", "create_failed", "write_failed", "keep_failed"}

\* Message::GraphicsChanged(GraphicsMsg::EditXml)
EditXml ==
    /\ UserInput
    /\ Accepting
    /\ app.current = "Graphics"
    /\ \E tf \in TempFileOutcomes, spawn_ok \in BOOLEAN : launch_graphics_xml_editor(tf, spawn_ok)
    /\ UNCHANGED <<env, window>>

\* the editor process ends: it has left the file as it was, rewritten it or
\* removed it, and exits with any code
EditorExitOf(i) ==
        /\ i \in 1..Len(sessions)
        /\ window # "closed"
        /\ sessions[i].child = "running"
        /\ \E code \in ExitCodes, file \in {sessions[i].file, None} \cup {Some(d) : d \in EditedDocs} :
              sessions' = [sessions EXCEPT ![i].child = "exited",
                                           ![i].status =
                                               IF sessions[i].task = "waiting"
                                               THEN Some(code) ELSE None,
                                           ![i].file = file]
        /\ ui_waiting' = IF ui_waiting = Some(i) THEN None ELSE ui_waiting
        /\ UNCHANGED <<app, env, window, tmp_dropped, ui_left>>
        /\ UNCHANGED <<rt_vars, about_vars>>

\* mutant: the file is read without regard to the outcome of the wait
task_result_reads_anyway(wait_res, file) ==
    IF file = None THEN Err("Read temp file failed")
    ELSE from_xml_str(trim_text(Unwrap(file)))

\* mutant: a non-zero exit status is an error
task_result_checks_status(wait_res, file) ==
    CASE ~wait_res.ok -> Err("Editor wait failed")
      [] wait_res.ok /\ Unwrap(wait_res.val) # 0 -> Err("Editor wait failed")
      [] wait_res.ok /\ Unwrap(wait_res.val) = 0 /\ file = None -> Err("Read temp file failed")
      [] wait_res.ok /\ Unwrap(wait_res.val) = 0 /\ file # None ->
            from_xml_str(trim_text(Unwrap(file)))

\* The future given to Task::perform, from the return of child.wait() on.
\* wait_res is Ok(exit status) or Err(..); the status is bound to _status
\* and not looked at.
task_result(wait_res, file) ==
    CASE ~wait_res.ok /\ wait_res.err = "join_error" -> Err("Join error waiting editor")
      [] ~wait_res.ok /\ wait_res.err # "join_error" -> Err("Editor wait failed")
      [] wait_res.ok /\ file = None -> Err("Read temp file failed")
      [] wait_res.ok /\ file # None -> from_xml_str(trim_text(Unwrap(file)))

\* Outcomes of spawn_blocking(child.wait()).await.  A JoinError needs the
\* closure to panic or the runtime to shut down; child.wait() does neither
\* while the dialog lives.
WaitOutcomes == {"ok", "wait_failed"}

TaskFinishOf(i) ==
        /\ i \in 1..Len(sessions)
        /\ sessions[i].task = "waiting"
        /\ window # "closed"
        /\ \E wait \in WaitOutcomes :
              /\ wait = "ok" => sessions[i].child = "exited"
              /\ sessions' = [sessions EXCEPT ![i].task = "done",
                                              ![i].child = IF @ = "exited" THEN "reaped" ELSE @,
                                              ![i].msg = Some(task_result(
                                                  IF wait = "ok" THEN Ok(Unwrap(sessions[i].status))
                                                  ELSE Err(wait),
                                                  sessions[i].file))]
        /\ UNCHANGED <<app, env, window, ui_waiting, tmp_dropped, ui_left>>
        /\ UNCHANGED <<rt_vars, about_vars>>

\* mutant: the message stays queued
after_delivery_keep(m) == m

\* what is left of a completion message once update has handled it
after_delivery(m) == None

\* Message::GraphicsEdited(result) reaches update
GraphicsEditedOf(i) ==
        /\ i \in 1..Len(sessions)
        /\ Accepting
        /\ IsSome(sessions[i].msg)
        /\ app' = update_GraphicsEdited(app, Unwrap(sessions[i].msg))
        /\ sessions' = [sessions EXCEPT ![i].msg = after_delivery(@),
                                        ![i].status = None,
                                        ![i].delivered = @ + 1]
        /\ UNCHANGED <<env, window, ui_waiting, tmp_dropped, ui_left>>
        /\ UNCHANGED <<rt_vars, about_vars>>

EditorExit == \E i \in 1..Len(sessions) : EditorExitOf(i)
TaskFinish == \E i \in 1..Len(sessions) : TaskFinishOf(i)
GraphicsEdited == \E i \in 1..Len(sessions) : GraphicsEditedOf(i)

Environments ==
    {[VISUAL |-> None, EDITOR |-> None],
     [VISUAL |-> None, EDITOR |-> Some(Str("vi"))],
     [VISUAL |-> Some(Str("gedit")), EDITOR |-> Some(Str("vi"))]}

InitWith(inputs) ==
    /\ app = new
    /\ env \in Environments
    /\ window = "open"
    /\ sessions = <<>>
    /\ ui_waiting = None
    /\ tmp_dropped = 0
    /\ ui_left = inputs
    /\ about = AboutStart
    /\ rt_orig = new
    /\ rt_pc = "idle"
    /\ rt_xml1 = Garbage
    /\ rt_dec = Err("")
    /\ rt_xml2 = Garbage
    /\ m_frag = None

Init == InitWith(MaxUiMsgs)

Next ==
    \/ SelectPage \/ StorageChanged \/ NetworkChanged \/ GraphicsChanged
    \/ EditXml \/ GraphicsEdited \/ Finish \/ Cancel
    \/ EditorExit \/ TaskFinish

Spec == Init /\ [][Next]_vars

\* The editor process eventually exits, the runtime runs the task to its
\* end, and the event loop hands every message it holds to update.
Fairness ==
    \A i \in 1..MaxUiMsgs :
        /\ WF_vars(EditorExitOf(i))
        /\ WF_vars(TaskFinishOf(i))
        /\ WF_vars(GraphicsEditedOf(i))

FairSpec == InitWith(FairUiMsgs) /\ [][Next]_vars /\ Fairness

----------------------------------------------------------------------------
(* Claims *)

\* C1 (as stated): for every config with display_type in {spice, vnc} other
\* than vnc with opengl_enabled, encode -> decode -> merge into the same
\* config -> encode yields the XML text of the first encode.
C1_Idempotence ==
    (/\ rt_pc = "done"
     /\ rt_orig.gfx_type \in {Str("spice"), Str("vnc")}
     /\ ~(rt_orig.gfx_type = Str("vnc") /\ rt_orig.gfx_opengl))
    => rt_xml2 = rt_xml1

\* C3 (as stated): whenever a decoded fragment whose listen type is "none"
\* is merged, the resulting state has listen_mode = none, address = Default
\* and port_is_auto = true, whatever the current config and whatever else
\* the fragment carries (a port included).
C3_ListenNoneForcesAuto ==
    (Applied /\ FragListenNone)
    => /\ app.gfx_listen_kind = Str("none")
       /\ app.gfx_address_selected = Str("Default")
       /\ app.gfx_port_auto = TRUE

\* C4: a config with port_is_auto and listen_mode = address encodes
\* port = -1; merging port = -1 sets port_is_auto and resets port_value to
\* 0; merging a non-negative port n clears port_is_auto and sets port_value
\* to n; merging a fragment with no port and no listen type "none" leaves
\* port_is_auto and port_value as they were.
C4_AutoPort ==
    /\ (rt_pc = "encoded" /\ app.gfx_port_auto /\ app.gfx_listen_kind = Str("address"))
       => Children(rt_xml1.root, "port") = <<Leaf("port", Str("-1"))>>
    /\ (Applied /\ Frag.port = Some(-1))
       => (app.gfx_port_auto = TRUE /\ app.gfx_port_value = 0)
    /\ (Applied /\ IsSome(Frag.port) /\ Frag.port # Some(-1) /\ Unwrap(Frag.port) >= 0)
       => (app.gfx_port_auto = FALSE /\ app.gfx_port_value = Unwrap(Frag.port))
    /\ (Applied /\ Frag.port = None /\ ~FragListenNone)
       => (/\ app.gfx_port_auto = rt_orig.gfx_port_auto
           /\ app.gfx_port_value = rt_orig.gfx_port_value)

C4_Witness ==
    /\ Applied
    /\ Frag.port = Some(-1)
    /\ rt_orig.gfx_port_value = 1
    /\ ~rt_orig.gfx_port_auto
    /\ app.gfx_port_value = 0

\* C5: merging a fragment without passwd sets password_enabled = false and
\* clears the password, whatever the config held; merging passwd = v (v may
\* be empty) sets password_enabled = true and password = v.
C5_Password ==
    /\ (Applied /\ Frag.passwd = None)
       => (app.gfx_password_enabled = FALSE /\ app.gfx_password = EmptyStr)
    /\ (Applied /\ IsSome(Frag.passwd))
       => (app.gfx_password_enabled = TRUE /\ app.gfx_password = Unwrap(Frag.passwd))

C5_Witness ==
    /\ Applied
    /\ Frag.passwd = None
    /\ rt_orig.gfx_password_enabled
    /\ rt_orig.gfx_password = Str("a")
    /\ ~app.gfx_password_enabled

\* C2 (as stated): for every config with listen_mode = none, encode ->
\* decode -> merge into a copy yields a config equal to the original on
\* type, listen_mode, password_enabled, password, opengl_enabled,
\* render_node and port_value; address is Default and port_is_auto true.
Merged == rt_pc \in {"merged", "done"}
C2_RoundTripAsStated ==
    (Merged /\ rt_orig.gfx_listen_kind = Str("none"))
    => /\ app.gfx_type = rt_orig.gfx_type
       /\ app.gfx_listen_kind = rt_orig.gfx_listen_kind
       /\ app.gfx_password_enabled = rt_orig.gfx_password_enabled
       /\ app.gfx_password = rt_orig.gfx_password
       /\ app.gfx_opengl = rt_orig.gfx_opengl
       /\ app.gfx_rendernode_selected = rt_orig.gfx_rendernode_selected
       /\ app.gfx_port_value = rt_orig.gfx_port_value
       /\ app.gfx_address_selected = Str("Default")
       /\ app.gfx_port_auto = TRUE

\* C2 (amended): for every config with listen_mode = none the round trip
\* keeps type, listen_mode, password_enabled and port_value, sets address
\* to Default and port_is_auto to true; password is the original with
\* surrounding whitespace trimmed if password_enabled and empty otherwise;
\* opengl_enabled is kept for spice and false for any other type;
\* render_node is kept if opengl_enabled was set and Auto otherwise.
C2_RoundTrip ==
    (Merged /\ rt_orig.gfx_listen_kind = Str("none"))
    => /\ app.gfx_type = rt_orig.gfx_type
       /\ app.gfx_listen_kind = rt_orig.gfx_listen_kind
       /\ app.gfx_password_enabled = rt_orig.gfx_password_enabled
       /\ app.gfx_password =
             IF rt_orig.gfx_password_enabled THEN trim(rt_orig.gfx_password) ELSE EmptyStr
       /\ app.gfx_opengl = (rt_orig.gfx_opengl /\ rt_orig.gfx_type = Str("spice"))
       /\ app.gfx_rendernode_selected =
             IF rt_orig.gfx_opengl THEN rt_orig.gfx_rendernode_selected ELSE Str("Auto")
       /\ app.gfx_port_value = rt_orig.gfx_port_value
       /\ app.gfx_address_selected = Str("Default")
       /\ app.gfx_port_auto = TRUE

C2_Witness ==
    /\ Merged
    /\ rt_orig.gfx_listen_kind = Str("none")
    /\ rt_orig.gfx_address_selected = Str("0.0.0.0")
    /\ ~rt_orig.gfx_port_auto
    /\ rt_orig.gfx_type = Str("vnc")
    /\ rt_orig.gfx_opengl
    /\ ~app.gfx_opengl
    /\ app.gfx_port_auto

----------------------------------------------------------------------------
(* Claims about the dialog *)

GfxConfig(s) ==
    <<s.gfx_type, s.gfx_listen_kind, s.gfx_address_selected, s.gfx_port_auto,
      s.gfx_port_value, s.gfx_password_enabled, s.gfx_password, s.gfx_opengl,
      s.gfx_rendernode_selected>>

\* the step hands session i's completion message to update
Delivers(i) == i \in 1..Len(sessions) /\ sessions'[i].delivered = sessions[i].delivered + 1

\* C6: when update handles GraphicsEdited with an error result (a parse
\* error or any other), no field of the dialog state but the status
\* message changes, and the dialog stays open.
C6_ErrorKeepsConfig ==
    [][\A i \in 1..Len(sessions) :
          (Delivers(i) /\ ~Unwrap(sessions[i].msg).ok)
          => /\ app' = [app EXCEPT !.gfx_status = app'.gfx_status]
             /\ GfxConfig(app') = GfxConfig(app)
             /\ app'.gfx_status = Some("Failed to apply XML: " \o Unwrap(sessions[i].msg).err)
             /\ window' = "open"
             /\ ui_waiting' = None]_vars

C6_Witness ==
    /\ window = "open"
    /\ app.gfx_status = Some("Failed to apply XML: XML parse error")
    /\ app.gfx_password_enabled
    /\ \E i \in 1..Len(sessions) : sessions[i].delivered = 1

NoEditorEnv == env.VISUAL = None /\ env.EDITOR = None
NoEditorText == "No default editor set (VISUAL/EDITOR). Please set one to edit XML."
TempFileErrors ==
    {"Failed to create temp file", "Failed writing temp XML", "Failed to persist temp XML"}

\* a step in which update handled EditXml and changed the dialog
EditXmlStep ==
    /\ ui_left' = ui_left - 1
    /\ sessions' # sessions \/ app'.gfx_status # app.gfx_status

NothingSpawned(ss) ==
    \A i \in 1..Len(ss) :
        ss[i].child = "none" /\ ss[i].task = "none" /\ ss[i].msg = None /\ ss[i].delivered = 0

\* C7 (as stated): with VISUAL and EDITOR unset, EditXml ends with the
\* NoEditorConfigured status, spawns no child, starts no task, delivers no
\* GraphicsEdited, and leaves the graphics config unchanged.
C7_NoEditorAsStated ==
    [][(NoEditorEnv /\ EditXmlStep)
       => /\ app'.gfx_status = Some(NoEditorText)
          /\ NothingSpawned(sessions')
          /\ GfxConfig(app') = GfxConfig(app)]_vars

\* C7 (amended): with VISUAL and EDITOR unset, no child is ever spawned,
\* no task started and no GraphicsEdited delivered, and EditXml leaves the
\* graphics config unchanged; it ends with the NoEditorConfigured status
\* if the temp file was created, written and persisted, and with that
\* step's error status otherwise.
C7_NoEditor ==
    /\ [](NoEditorEnv => NothingSpawned(sessions))
    /\ [][(NoEditorEnv /\ EditXmlStep)
          => /\ GfxConfig(app') = GfxConfig(app)
             /\ Len(sessions') > Len(sessions) => app'.gfx_status = Some(NoEditorText)
             /\ Len(sessions') = Len(sessions)
                => \E e \in TempFileErrors : app'.gfx_status = Some(e)]_vars

C7_Witness ==
    /\ NoEditorEnv
    /\ Len(sessions) = 1
    /\ app.gfx_status = Some(NoEditorText)
    /\ app.gfx_temp_xml_path = Some(1)

\* C8 (as stated): in every reachable state at most one spawned editor
\* process has its completion message still undelivered.
InFlight == {i \in 1..Len(sessions) : sessions[i].child # "none" /\ sessions[i].delivered = 0}
C8_OneInFlight == Cardinality(InFlight) <= 1

\* C9: handling EditXml returns without waiting for the editor, and while
\* the dialog is open with an editor running whose completion is pending,
\* update accepts and applies every SelectPage, StorageChanged,
\* NetworkChanged and GraphicsChanged message.
EditorPending ==
    \E i \in 1..Len(sessions) : sessions[i].child = "running" /\ sessions[i].delivered = 0
C9_Responsive ==
    (window = "open" /\ EditorPending)
    => /\ ui_waiting = None
       /\ \A p \in Page : ENABLED HandleSelectPage(p)
       /\ \A smsg \in StorageMsg : ENABLED HandleStorageChanged(smsg)
       /\ \A nmsg \in NetworkMsg : ENABLED HandleNetworkChanged(nmsg)
       /\ \A gmsg \in GraphicsMsg : ENABLED HandleGraphicsChanged(gmsg)

C9_Witness ==
    /\ window = "open"
    /\ \E i \in 1..Len(sessions) : sessions[i].child = "running" /\ sessions[i].task = "waiting"
    /\ app.current = "Storage"
    /\ ui_left = 0

Spawned(i) == i \in 1..Len(sessions) /\ sessions[i].child # "none"
DeliveredOnce(i) == i \in 1..Len(sessions) /\ sessions[i].delivered = 1
AtMostOnce == \A i \in 1..Len(sessions) : sessions[i].delivered <= 1

\* C10 (as stated): every cycle whose editor was spawned delivers exactly
\* one GraphicsEdited message, and under fairness that message is
\* eventually delivered.
C10_DeliveredAsStated ==
    /\ []AtMostOnce
    /\ \A i \in 1..MaxUiMsgs : Spawned(i) ~> DeliveredOnce(i)

\* C10 (amended): no cycle ever delivers more than one GraphicsEdited
\* message and only a cycle whose editor was spawned delivers one; under
\* fairness every such cycle eventually delivers its message unless the
\* dialog is closed (Finish or Cancel) first.
C10_Delivered ==
    /\ [](AtMostOnce /\ \A i \in 1..Len(sessions) : sessions[i].delivered = 1 => Spawned(i))
    /\ \A i \in 1..MaxUiMsgs : Spawned(i) ~> (DeliveredOnce(i) \/ window = "closed")

C10_Witness ==
    /\ window = "open"
    /\ \E i \in 1..Len(sessions) :
          /\ sessions[i].child = "reaped"
          /\ sessions[i].delivered = 1
          /\ sessions[i].msg = None

----------------------------------------------------------------------------
(* Claims about errors and the temp file *)

LaunchErrors == TempFileErrors \cup {NoEditorText, "Failed to launch editor"}
CompletionErrors ==
    {"Failed to apply XML: " \o e :
        e \in {"Editor wait failed", "Read temp file failed", "XML parse error"}}

\* a step in which update handled EditXml and no editor was spawned
LaunchErrorStep ==
    /\ EditXmlStep
    /\ Len(sessions') > Len(sessions) => sessions'[Len(sessions')].child = "none"

\* C11: every error of the edit flow sets its status message and leaves the
\* dialog open; no edit cycle starts but from a user's EditXml (no automatic
\* retry); and with an error shown a new EditXml is accepted and starts a
\* cycle of its own.
C11_Recoverable ==
    /\ [][/\ (LaunchErrorStep
               => (window' = "open" /\ \E e \in LaunchErrors : app'.gfx_status = Some(e)))
           /\ (\A i \in 1..Len(sessions) :
                 ((Delivers(i) /\ ~Unwrap(sessions[i].msg).ok)
                  => (window' = "open" /\ \E e \in CompletionErrors : app'.gfx_status = Some(e))))
           /\ ((Len(sessions') > Len(sessions))
               => (ui_left' = ui_left - 1 /\ Len(sessions') = Len(sessions) + 1))
           /\ (\A j \in 1..Len(sessions) :
                 /\ (sessions[j].child = "none" => sessions'[j].child = "none")
                 /\ (sessions[j].task = "none" => sessions'[j].task = "none"))]_vars
    /\ []((/\ window = "open" /\ app.current = "Graphics" /\ ui_left > 0
            /\ \E e \in LaunchErrors \cup CompletionErrors : app.gfx_status = Some(e))
           => ENABLED EditXml)

C11_Witness ==
    /\ window = "open"
    /\ app.gfx_status = Some("Failed to apply XML: Editor wait failed")
    /\ Len(sessions) = 2
    /\ sessions[1].delivered = 1
    /\ sessions[2].child = "running"

\* the cycle of session i is over: nothing was spawned, or its completion
\* has been handled
Completed(i) == sessions[i].child = "none" \/ sessions[i].delivered = 1

\* the step spawns an editor for a new session
SpawnStep ==
    /\ Len(sessions') = Len(sessions) + 1
    /\ sessions'[Len(sessions')].child = "running"

\* the future of session i reads the temp file in this step
ReadStep(i) ==
    /\ sessions[i].task = "waiting"
    /\ sessions'[i].task = "done"
    /\ sessions'[i].msg # Some(Err("Editor wait failed"))

\* the editor process of session i ends in this step
EditorExitStep(i) == sessions[i].child = "running" /\ sessions'[i].child = "exited"

\* C12 (as stated): every edit cycle creates, writes and persists its temp
\* file before the editor is spawned; the file is read only after the
\* editor has exited; no step deletes a temp file, and after every
\* completed cycle, with success or with an error, its file exists.
C12_LifecycleAsStated ==
    /\ [][/\ (EditXmlStep => (Len(sessions') = Len(sessions) + 1 /\ tmp_dropped' = tmp_dropped))
           /\ (\A i \in 1..Len(sessions) : (ReadStep(i) => sessions[i].child = "exited"))]_vars
    /\ [](\A j \in 1..Len(sessions) : (Completed(j) => sessions[j].file # None))

\* C12 (amended): an editor is spawned only with its temp file created,
\* written with the encoded XML and persisted; the file is read only after
\* the editor has exited; the dialog never changes or removes a persisted
\* temp file (only the editor process does), so the file of a cycle whose
\* editor never ran or is running exists.  A cycle that fails at writing
\* or persisting removes the file it created, and one that fails at
\* creating has none.
C12_Lifecycle ==
    /\ [][/\ (SpawnStep
               => /\ sessions'[Len(sessions')].file
                       = Some([graphics_xml_string(app) EXCEPT !.nl = TRUE])
                  /\ app'.gfx_temp_xml_path = Some(Len(sessions'))
                  /\ tmp_dropped' = tmp_dropped)
           /\ (\A i \in 1..Len(sessions) :
                  /\ (ReadStep(i) => sessions[i].child = "exited")
                  /\ (sessions'[i].file # sessions[i].file => EditorExitStep(i)))
           /\ ((tmp_dropped' # tmp_dropped)
               => /\ tmp_dropped' = tmp_dropped + 1
                  /\ sessions' = sessions
                  /\ app'.gfx_status \in {Some("Failed writing temp XML"),
                                          Some("Failed to persist temp XML")})
           /\ ((EditXmlStep /\ app'.gfx_status = Some("Failed to create temp file")
                             /\ app.gfx_status # app'.gfx_status)
               => (sessions' = sessions /\ tmp_dropped' = tmp_dropped))]_vars
    /\ [](\A j \in 1..Len(sessions) :
             (sessions[j].child \in {"none", "running"} => sessions[j].file # None))

C12_Witness ==
    /\ tmp_dropped = 1
    /\ \E i \in 1..Len(sessions) :
          /\ sessions[i].delivered = 1
          /\ sessions[i].file = Some(DocQxl)
    /\ app.gfx_status = Some("Applied changes from XML.")

\* what reading and decoding the temp file yields
ReadResult(file) ==
    IF file = None THEN Err("Read temp file failed")
    ELSE from_xml_str(trim_text(Unwrap(file)))

\* C13: whenever the wait for the editor succeeds, whatever the exit
\* status, the completion carries the result of reading and decoding the
\* temp file, and update applies it; the only other completion is the
\* EditorWait error of a failed wait.
C13_ExitCodeIgnored ==
    /\ [][\A i \in 1..Len(sessions) :
             /\ ((sessions[i].task = "waiting" /\ sessions'[i].task = "done")
                 => \/ sessions'[i].msg = Some(Err("Editor wait failed"))
                    \/ /\ sessions[i].child = "exited"
                       /\ sessions'[i].msg = Some(ReadResult(sessions[i].file)))
             /\ ((Delivers(i) /\ Unwrap(sessions[i].msg).ok)
                 => app' = set_status(
                               apply_graphics_from_xml(app, Unwrap(Unwrap(sessions[i].msg).val)),
                               "Applied changes from XML."))]_vars
    /\ [](\A j \in 1..Len(sessions) :
             ((window = "open" /\ sessions[j].task = "waiting" /\ sessions[j].child = "exited")
              => ENABLED (/\ TaskFinishOf(j)
                          /\ sessions'[j].msg = Some(ReadResult(sessions[j].file)))))

C13_Witness ==
    /\ app.gfx_status = None
    /\ \E i \in 1..Len(sessions) :
          /\ sessions[i].status = Some(1)
          /\ sessions[i].task = "done"
          /\ sessions[i].file = Some(DocQxl)
          /\ sessions[i].msg = Some(from_xml_str(DocQxl))
          /\ sessions[i].msg[1].ok

----------------------------------------------------------------------------
(* Claims about the encoder *)

\* the values an element carries under the name n, as an attribute or as
\* a child element
AttrValues(e, n) == {e.attrs[i].value : i \in {k \in 1..Len(e.attrs) : e.attrs[k].name = n}}
ChildTexts(e, n) == {c.text : c \in Range(Children(e, n))}
Values(e, n) == AttrValues(e, n) \cup ChildTexts(e, n)
Occurrences(e, n) ==
    Cardinality({k \in 1..Len(e.attrs) : e.attrs[k].name = n}) + Len(Children(e, n))

Encoded == rt_pc = "encoded"
EncRoot == rt_xml1.root
EncListen == Child(EncRoot, "listen")

\* C14: the encoded fragment always has one listen element; for
\* listen_mode = none its type is "none", it has no address and the
\* fragment has no port; otherwise its type is "address", it has the
\* address iff that is not the default sentinel, and the fragment has
\* port -1 if port_is_auto and port_value otherwise.
C14_EncoderListenPort ==
    Encoded =>
        /\ Len(Children(EncRoot, "listen")) = 1
        /\ Occurrences(EncListen, "type") = 1
        /\ (app.gfx_listen_kind = Str("none"))
           => /\ Values(EncListen, "type") = {Str("none")}
              /\ Occurrences(EncListen, "address") = 0
              /\ Occurrences(EncRoot, "port") = 0
        /\ (app.gfx_listen_kind # Str("none"))
           => /\ Values(EncListen, "type") = {Str("address")}
              /\ Values(EncListen, "address") =
                    (IF app.gfx_address_selected = Str("Default") THEN {}
                     ELSE {app.gfx_address_selected})
              /\ Occurrences(EncListen, "address") <= 1
              /\ Occurrences(EncRoot, "port") = 1
              /\ Values(EncRoot, "port") =
                    {i32_to_text(IF app.gfx_port_auto THEN -1 ELSE app.gfx_port_value)}

C14_Witness ==
    /\ Encoded
    /\ app.gfx_listen_kind = Str("none")
    /\ app.gfx_address_selected = Str("0.0.0.0")
    /\ ~app.gfx_port_auto
    /\ app.gfx_port_value = 1
    /\ Occurrences(EncRoot, "port") = 0

\* C15: the encoded fragment has gl iff display_type = spice, with enable
\* "yes" iff opengl_enabled and "no" otherwise; it has rendernode iff
\* opengl_enabled and render_node is not the Auto sentinel, whatever the
\* display_type.
C15_EncoderGlRendernode ==
    Encoded =>
        /\ Len(Children(EncRoot, "gl")) = (IF app.gfx_type = Str("spice") THEN 1 ELSE 0)
        /\ (app.gfx_type = Str("spice"))
           => /\ Occurrences(Child(EncRoot, "gl"), "enable") = 1
              /\ Values(Child(EncRoot, "gl"), "enable") =
                    {IF app.gfx_opengl THEN Str("yes") ELSE Str("no")}
        /\ Values(EncRoot, "rendernode") =
              (IF app.gfx_opengl /\ app.gfx_rendernode_selected # Str("Auto")
               THEN {app.gfx_rendernode_selected} ELSE {})
        /\ Occurrences(EncRoot, "rendernode") <= 1

C15_Witness ==
    /\ Encoded
    /\ app.gfx_type = Str("vnc")
    /\ app.gfx_opengl
    /\ app.gfx_rendernode_selected = Str("/dev/dri/renderD128")
    /\ Occurrences(EncRoot, "gl") = 0
    /\ Occurrences(EncRoot, "rendernode") = 1

\* a fragment in the attribute form of the wire format
DocAttrForm ==
    XmlText(FALSE,
            Elem("graphics",
                 <<Attr("type", Str("vnc")), Attr("passwd", Str("a")), Attr("port", Str("1"))>>,
                 <<Elem("listen", <<Attr("type", Str("none"))>>, <<>>, <<>>)>>,
                 <<>>),
            FALSE)

AttrOnly(e, n) == Len(Children(e, n)) = 0 /\ Cardinality(AttrValues(e, n)) = 1
NoChildNamed(e, n) == Len(Children(e, n)) = 0

\* C16 (as stated): in the encoded graphics element type, passwd,
\* rendernode and port are attributes and gl and listen child elements,
\* enable is an attribute of gl and type/address are attributes of listen;
\* the decoder reads the fields from the same positions.
C16_WireFormat ==
    Encoded =>
        /\ EncRoot.name = "graphics"
        /\ AttrOnly(EncRoot, "type")
        /\ \A n \in {"passwd", "rendernode", "port"} : NoChildNamed(EncRoot, n)
        /\ (app.gfx_password_enabled => AttrValues(EncRoot, "passwd") = {app.gfx_password})
        /\ Len(Children(EncRoot, "listen")) = 1
        /\ AttrOnly(EncListen, "type")
        /\ NoChildNamed(EncListen, "address")
        /\ (app.gfx_type = Str("spice")
            => (Len(Children(EncRoot, "gl")) = 1 /\ AttrOnly(Child(EncRoot, "gl"), "enable")))
        /\ from_xml_str(DocAttrForm).ok
        /\ Unwrap(from_xml_str(DocAttrForm).val).gtype = Str("vnc")
        /\ Unwrap(from_xml_str(DocAttrForm).val).passwd = Some(Str("a"))
        /\ Unwrap(from_xml_str(DocAttrForm).val).port = Some(1)

----------------------------------------------------------------------------
(* Claims about the About dialog manager *)

AboutNext == AboutGetInstance \/ AboutShow \/ AboutClose \/ AboutCleanup

AboutSpec == InitWith(0) /\ [][AboutNext]_vars

LogOf(op) == {k \in 1..Len(about.log) : about.log[k][1] = op}

\* C17: every get_instance call returns the same manager; every close
\* returns 1; and after close or cleanup, whatever calls came before, the
\* manager holds no dialog instance.
C17_Singleton ==
    /\ \A k, l \in LogOf("get_instance") : about.log[k][2] = about.log[l][2]
    /\ about.inits <= 1
    /\ \A k \in LogOf("close") : about.log[k][2] = 1
    /\ (about.log # <<>> /\ about.log[Len(about.log)][1] \in {"close", "cleanup"})
       => Unwrap(about.once).instance = None

C17_Witness ==
    /\ Len(about.log) = 4
    /\ about.log[1][1] = "get_instance"
    /\ about.log[2][1] = "show"
    /\ about.log[3] = <<"get_instance", 1>>
    /\ about.log[4] = <<"close", 1>>
    /\ Unwrap(about.once).instance = None

----------------------------------------------------------------------------
(* Claims about the merge and the reachable configs *)

\* C18 (as stated): whenever the merged fragment's listen type is not
\* "none" (another type, or no listen supplied), the resulting state has
\* listen_mode = address and address = the fragment's listen address, or
\* the default sentinel if the fragment has none.
C18_ListenMerge ==
    (Applied /\ ~FragListenNone)
    => /\ app.gfx_listen_kind = Str("address")
       /\ app.gfx_address_selected =
             (IF IsSome(Frag.listen) /\ IsSome(Unwrap(Frag.listen).address)
              THEN Unwrap(Unwrap(Frag.listen).address)
              ELSE Str("Default"))

\* C19 (as stated): in every reachable state of the dialog,
\* port_is_auto = false implies port_value >= 0.
C19_PortNonNegative == (~app.gfx_port_auto) => app.gfx_port_value >= 0

\* C20 (as stated): in every reachable state of the dialog display_type
\* is spice or vnc and listen_mode is address or none.
C20_EnumDomains ==
    /\ app.gfx_type \in Range(gfx_types)
    /\ app.gfx_listen_kind \in Range(listen_kinds)

----------------------------------------------------------------------------
(* Claims about edits made while an editor runs *)

\* the fragment the completion of session i carries
Decoded(i) == Unwrap(Unwrap(sessions[i].msg).val)

\* C21: the XML an editor gets is the encoding of the config at EditXml
\* time and no later message changes it; when a completion is merged,
\* password_enabled, password, opengl_enabled and render_node are what the
\* decoded fragment says and nothing else, so whatever the user or an
\* earlier completion had put there in the meantime is overwritten.
C21_LostUpdate ==
    [][/\ (SpawnStep
           => sessions'[Len(sessions')].file
                = Some([graphics_xml_string(app) EXCEPT !.nl = TRUE]))
       /\ (\A i \in 1..Len(sessions) :
              /\ ((sessions'[i].file # sessions[i].file) => EditorExitStep(i))
              /\ ((Delivers(i) /\ Unwrap(sessions[i].msg).ok)
                  => /\ app'.gfx_password_enabled = IsSome(Decoded(i).passwd)
                     /\ app'.gfx_password =
                           (IF IsSome(Decoded(i).passwd) THEN Unwrap(Decoded(i).passwd)
                            ELSE EmptyStr)
                     /\ app'.gfx_opengl =
                           (IsSome(Decoded(i).gl) /\ Unwrap(Decoded(i).gl).enable = Str("yes"))
                     /\ app'.gfx_rendernode_selected =
                           (IF IsSome(Decoded(i).rendernode) THEN Unwrap(Decoded(i).rendernode)
                            ELSE Str("Auto"))))]_vars

\* two overlapping cycles: the first completion merged a password and vnc,
\* the second, still the snapshot of the initial config, has undone both
C21_Witness ==
    /\ Len(sessions) = 2
    /\ sessions[1].delivered = 1
    /\ sessions[2].delivered = 1
    /\ sessions[1].file = Some(DocNoneWithPort)
    /\ sessions[2].file = Some([graphics_xml_string(new) EXCEPT !.nl = TRUE])
    /\ ~app.gfx_password_enabled
    /\ app.gfx_password = EmptyStr
    /\ app.gfx_type = Str("spice")
    /\ app.gfx_status = Some("Applied changes from XML.")

====
